---- MODULE Spec2Model ----
(***************************************************************************)
(* State-machine model of the Applesauce front end:                        *)
(*   - the Recorder component (src/src/lib/tauri.js, lines 76-309): the    *)
(*     React state, the refs, and the platform objects it drives           *)
(*     (MediaStream, AudioContext, MediaRecorder, intervals, animation     *)
(*     frames), one action per click, event or promise continuation;       *)
(*   - the Gateway (src/src/lib/tauri.js, lines 6-68): getInvoke,          *)
(*     tauriInvoke and the exported command wrappers;                      *)
(*   - the App shell (src/src/App.jsx): its recording controls, the mock   *)
(*     switch, and the remote start, stop and transcribe calls.            *)
(***************************************************************************)
EXTENDS Integers, Sequences, FiniteSets, TLC

\* ------------------------------------------------------------ bounds
\* Number of startRecording calls (each creates at most one stream / recorder).
MaxStarts == 2
\* Number of stopRecording calls (each creates one finalize closure).
MaxStops == 2
\* Number of timeslice dataavailable events that carry data.
MaxChunks == 2
\* Largest clock value (in units of the 200 ms tick).
MaxTime == 2
\* Number of Gateway calls.
MaxCalls == 2
\* Largest number of byte samples in an audio frame.
MaxFrameLen == 2
\* Every SampleStep-th byte value is drawn as a sample.
SampleStep == 5
\* Number of handleRecordStart calls of the App shell.
MaxAppStarts == 2
\* Number of handleRecordStop calls of the App shell (each starts at most one
\* transcription).
MaxAppStops == 2

\* ------------------------------------------------------------ domains
\* null, as held by an empty ref
NULL == 0
\* an interval slot that holds no running interval
NoInterval == -1
Attempts == 1..MaxStarts
Finals == 1..MaxStops
TimerIds == 1..(MaxStarts + 1)
\* peak amplitudes |sample - 128| a frame of byte samples can show
Peaks == {0, 128}
\* stages of setupAudio at which the platform can throw; "none" = no failure
FailStages == {"none", "ctx", "source", "analyser", "recorder"}
Calls == 1..MaxCalls
\* the command names of the exported wrappers (lines 43-68)
Commands == {"start_recording", "pause_recording", "resume_recording",
             "stop_recording", "transcribe_latest", "import_audio_file",
             "import_youtube_audio", "import_pdf_file", "open_storage_dir",
             "clear_storage_dir", "save_api_key", "read_api_key",
             "set_prompt_preset", "get_prompt_preset", "open_quizlet"}

VARIABLES
  \* React state of Recorder
  status, elapsed, level, savingPath,
  \* refs of Recorder
  timerRef, mediaStreamRef, mediaRecorderRef, chunksRef,
  audioCtxRef, analyserRef, sourceNodeRef, rafRef,
  \* platform: clock, running intervals, scheduled animation-frame loops
  now, intervals, loops,
  \* platform objects created by the i-th setupAudio call
  stream, ctx, source, analyser, recorder, stopQueued, listeners,
  \* the i-th startRecording call: its position and the elapsed its closure saw
  callPc, callElapsed,
  \* the f-th finalize closure: its position, its recorder, its blob
  finPc, finMr, finBlob,
  \* number of timeslice dataavailable events delivered with data
  dataEvents,
  \* an Adapter operation was invoked on a recorder in a state that forbids it
  \* (the platform throws InvalidStateError)
  invalidStateError,
  \* the Recorder component is mounted (its effect cleanup has not run)
  mounted,
  \* Gateway: module state and the call in flight
  isTauri, cachedInvoke, gwPc, gwCmd, gwImports, gwInvokes, gwResult,
  \* MIME negotiation of one recording: what MediaRecorder.isTypeSupported
  \* answers, the mime setupAudio passes to the constructor, what mr.mimeType
  \* reports, the mime and the ext finalize computes, and the position
  isTypeSupported, setupMime, mimeType, finalizeMime, ext, extPc,
  \* one run of the meter: the frame getByteTimeDomainData filled, the position
  data, meterPc,
  \* React state of App (status is appStatus here)
  mock, isRecording, isPaused, appStatus, transcript, loading,
  \* the k-th handleRecordStart: its position, and isRecording / isPaused
  \* when it was called
  startPc, startPre,
  \* the k-th handleRecordStop: its position, and isRecording / isPaused
  \* when it was called
  stopPc, stopPre,
  \* the handleTranscribe called by the k-th handleRecordStop: its position,
  \* how often it was called, and the transcriptions in flight when it was
  trPc, trCount, trConcurrent

recVars == <<status, elapsed, level, savingPath,
             timerRef, mediaStreamRef, mediaRecorderRef, chunksRef,
             audioCtxRef, analyserRef, sourceNodeRef, rafRef,
             now, intervals, loops,
             stream, ctx, source, analyser, recorder, stopQueued, listeners,
             callPc, callElapsed, finPc, finMr, finBlob,
             dataEvents, invalidStateError, mounted>>

gwVars == <<isTauri, cachedInvoke, gwPc, gwCmd, gwImports, gwInvokes, gwResult>>

\* what a step of the Recorder leaves alone, and what a step of the Gateway does
\* (notRecorder, notGateway)
extVars == <<isTypeSupported, setupMime, mimeType, finalizeMime, ext, extPc>>

meterVars == <<data, meterPc>>

appVars == <<mock, isRecording, isPaused, appStatus, transcript, loading,
             startPc, startPre, stopPc, stopPre, trPc, trCount, trConcurrent>>

notRecorder == <<gwVars, extVars, meterVars, appVars>>

notGateway == <<recVars, extVars, meterVars, appVars>>

\* what a step of the App shell leaves alone
notApp == <<recVars, gwVars, extVars, meterVars>>

vars == <<recVars, gwVars, extVars, meterVars, appVars>>

Min(S) == CHOOSE x \in S : \A y \in S : x <= y

\* ------------------------------------------------------------ Recorder: initial state
RecorderInit ==
  /\ status = "idle"
  /\ elapsed = 0
  /\ level = 0
  /\ savingPath = "null"
  /\ timerRef = NULL
  /\ mediaStreamRef = NULL
  /\ mediaRecorderRef = NULL
  /\ chunksRef = <<>>
  /\ audioCtxRef = NULL
  /\ analyserRef = NULL
  /\ sourceNodeRef = NULL
  /\ rafRef = NULL
  /\ now = 0
  /\ intervals = [t \in TimerIds |-> NoInterval]
  /\ loops = {}
  /\ stream = [i \in Attempts |-> "none"]
  /\ ctx = [i \in Attempts |-> "none"]
  /\ source = [i \in Attempts |-> "none"]
  /\ analyser = [i \in Attempts |-> "none"]
  /\ recorder = [i \in Attempts |-> "none"]
  /\ stopQueued = [i \in Attempts |-> FALSE]
  /\ listeners = [i \in Attempts |-> {}]
  /\ callPc = [i \in Attempts |-> "none"]
  /\ callElapsed = [i \in Attempts |-> 0]
  /\ finPc = [f \in Finals |-> "none"]
  /\ finMr = [f \in Finals |-> NULL]
  /\ finBlob = [f \in Finals |-> <<>>]
  /\ dataEvents = 0
  /\ invalidStateError = FALSE
  /\ mounted = TRUE

\* ------------------------------------------------------------ meter (lines 93-114)
\* Math.min(100, Math.round((peak / 128) * 100)); Math.round(x) = floor(x + 1/2)
Level(peak) ==
  LET r == (200 * peak + 128) \div 256
  IN IF r > 100 THEN 100 ELSE r

\* the frame an analyser reads: silence once its stream's tracks are stopped
FramePeaks(i) == IF stream[i] = "live" THEN Peaks ELSE {0}

\* startMeter on the analyser in analyserRef: loop() runs once at once
startMeter(a, peak) ==
  IF a = NULL
  THEN UNCHANGED <<level, rafRef, loops>>
  ELSE /\ level' = Level(peak)
       /\ rafRef' = a
       /\ loops' = loops \cup {a}

stopMeter ==
  /\ loops' = IF rafRef # NULL THEN loops \ {rafRef} ELSE loops
  /\ rafRef' = NULL
  /\ level' = 0

\* one scheduled frame callback of the loop started on analyser a
MeterFrame(a, peak) ==
  /\ a \in loops
  /\ peak \in FramePeaks(a)
  /\ level' = Level(peak)
  /\ rafRef' = a
  /\ UNCHANGED <<status, elapsed, savingPath, timerRef, mediaStreamRef,
                 mediaRecorderRef, chunksRef, audioCtxRef, analyserRef,
                 sourceNodeRef, now, intervals, loops, stream, ctx, source,
                 analyser, recorder, stopQueued, listeners, callPc,
                 callElapsed, finPc, finMr, finBlob, dataEvents,
                 invalidStateError>>
  /\ UNCHANGED <<mounted, notRecorder>>

\* ------------------------------------------------------------ timer (lines 116-130)
FreeTimer == Min({t \in TimerIds : intervals[t] = NoInterval})

\* startTimer in a closure whose render saw elapsed = e
startTimer(e) ==
  /\ timerRef' = FreeTimer
  /\ intervals' = [intervals EXCEPT ![FreeTimer] = now - e]

stopTimer ==
  /\ intervals' = IF timerRef # NULL
                  THEN [intervals EXCEPT ![timerRef] = NoInterval]
                  ELSE intervals
  /\ timerRef' = NULL

\* the interval callback: setElapsed(Date.now() - started)
TimerTick(t) ==
  /\ intervals[t] # NoInterval
  /\ elapsed' = now - intervals[t]
  /\ UNCHANGED <<status, level, savingPath, timerRef, mediaStreamRef,
                 mediaRecorderRef, chunksRef, audioCtxRef, analyserRef,
                 sourceNodeRef, rafRef, now, intervals, loops, stream, ctx,
                 source, analyser, recorder, stopQueued, listeners, callPc,
                 callElapsed, finPc, finMr, finBlob, dataEvents,
                 invalidStateError>>
  /\ UNCHANGED <<mounted, notRecorder>>

\* Date.now() advances
ClockAdvance ==
  /\ now < MaxTime
  /\ now' = now + 1
  /\ UNCHANGED <<status, elapsed, level, savingPath, timerRef, mediaStreamRef,
                 mediaRecorderRef, chunksRef, audioCtxRef, analyserRef,
                 sourceNodeRef, rafRef, intervals, loops, stream, ctx,
                 source, analyser, recorder, stopQueued, listeners, callPc,
                 callElapsed, finPc, finMr, finBlob, dataEvents,
                 invalidStateError>>
  /\ UNCHANGED <<mounted, notRecorder>>

\* ------------------------------------------------------------ setupAudio (lines 132-165)
StageNo(s) ==
  CASE s = "ctx" -> 1
    [] s = "source" -> 2
    [] s = "analyser" -> 3
    [] s = "recorder" -> 4
    [] OTHER -> 5

\* the i-th setupAudio once getUserMedia has resolved; the platform throws at
\* stage fail ("none": it runs to its end).  Each statement before the throw
\* has taken effect.
setupAudio(i, fail) ==
  /\ stream' = [stream EXCEPT ![i] = "live"]
  /\ mediaStreamRef' = i
  /\ IF StageNo(fail) > 1
     THEN ctx' = [ctx EXCEPT ![i] = "running"] /\ audioCtxRef' = i
     ELSE UNCHANGED <<ctx, audioCtxRef>>
  /\ IF StageNo(fail) > 2
     THEN sourceNodeRef' = i
     ELSE UNCHANGED sourceNodeRef
  /\ source' = [source EXCEPT ![i] =
                  IF StageNo(fail) > 3 THEN "connected"
                  ELSE IF StageNo(fail) > 2 THEN "created" ELSE @]
  /\ IF StageNo(fail) > 3
     THEN analyser' = [analyser EXCEPT ![i] = "connected"] /\ analyserRef' = i
     ELSE UNCHANGED <<analyser, analyserRef>>
  /\ IF StageNo(fail) > 4
     THEN mediaRecorderRef' = i
     ELSE UNCHANGED mediaRecorderRef

\* the recorders after the i-th setupAudio: new MediaRecorder(stream) is inactive
RecorderCreated(i, fail) ==
  IF StageNo(fail) > 4 THEN [recorder EXCEPT ![i] = "inactive"] ELSE recorder

\* ------------------------------------------------------------ teardownAudio (lines 167-180)
\* the platform stops a recorder whose stream's tracks have all ended
TracksEnded(s) == s # NULL /\ recorder[s] \in {"recording", "paused"}

teardownAudio ==
  /\ stopMeter
  /\ analyser' = IF analyserRef # NULL
                 THEN [analyser EXCEPT ![analyserRef] = "disconnected"]
                 ELSE analyser
  /\ source' = IF sourceNodeRef # NULL
               THEN [source EXCEPT ![sourceNodeRef] = "disconnected"]
               ELSE source
  /\ ctx' = IF audioCtxRef # NULL
            THEN [ctx EXCEPT ![audioCtxRef] = "closed"]
            ELSE ctx
  /\ stream' = IF mediaStreamRef # NULL
               THEN [stream EXCEPT ![mediaStreamRef] = "ended"]
               ELSE stream
  /\ recorder' = IF TracksEnded(mediaStreamRef)
                 THEN [recorder EXCEPT ![mediaStreamRef] = "inactive"]
                 ELSE recorder
  /\ stopQueued' = IF TracksEnded(mediaStreamRef)
                   THEN [stopQueued EXCEPT ![mediaStreamRef] = TRUE]
                   ELSE stopQueued
  /\ mediaStreamRef' = NULL
  /\ audioCtxRef' = NULL
  /\ sourceNodeRef' = NULL
  /\ analyserRef' = NULL

\* ------------------------------------------------------------ buttons (lines 278-300)
\* disabled={status !== "idle"} on Start
StartDisabled == status # "idle"

\* disabled={status === "idle"} on Pause/Resume
PauseResumeDisabled == status = "idle"

\* disabled={status === "idle"} on Stop & Save
StopDisabled == status = "idle"

\* ------------------------------------------------------------ startRecording (lines 182-190)
FreeAttempts == {i \in Attempts : callPc[i] = "none"}

\* Start clicked (enabled while status is idle): startRecording runs to
\* getUserMedia and waits.
ClickStart ==
  /\ mounted
  /\ ~StartDisabled
  /\ FreeAttempts # {}
  /\ LET i == Min(FreeAttempts)
     IN /\ callPc' = [callPc EXCEPT ![i] = "pending"]
        /\ callElapsed' = [callElapsed EXCEPT ![i] = elapsed]
  /\ UNCHANGED <<status, elapsed, level, savingPath, timerRef, mediaStreamRef,
                 mediaRecorderRef, chunksRef, audioCtxRef, analyserRef,
                 sourceNodeRef, rafRef, now, intervals, loops, stream, ctx,
                 source, analyser, recorder, stopQueued, listeners, finPc,
                 finMr, finBlob, dataEvents, invalidStateError>>
  /\ UNCHANGED <<mounted, notRecorder>>

\* getUserMedia rejects (no permission, no device): startRecording rejects
GetUserMediaRejected(i) ==
  /\ callPc[i] = "pending"
  /\ callPc' = [callPc EXCEPT ![i] = "rejected"]
  /\ UNCHANGED <<status, elapsed, level, savingPath, timerRef, mediaStreamRef,
                 mediaRecorderRef, chunksRef, audioCtxRef, analyserRef,
                 sourceNodeRef, rafRef, now, intervals, loops, stream, ctx,
                 source, analyser, recorder, stopQueued, listeners,
                 callElapsed, finPc, finMr, finBlob, dataEvents,
                 invalidStateError>>
  /\ UNCHANGED <<mounted, notRecorder>>

\* getUserMedia resolves and a later statement of setupAudio throws
SetupAudioThrows(i, fail) ==
  /\ callPc[i] = "pending"
  /\ fail # "none"
  /\ setupAudio(i, fail)
  /\ recorder' = RecorderCreated(i, fail)
  /\ callPc' = [callPc EXCEPT ![i] = "threw"]
  /\ UNCHANGED <<status, elapsed, level, savingPath, timerRef, chunksRef,
                 rafRef, now, intervals, loops, stopQueued, listeners,
                 callElapsed, finPc, finMr, finBlob, dataEvents,
                 invalidStateError>>
  /\ UNCHANGED <<mounted, notRecorder>>

\* startRecording with its reset of the accumulator left out
startRecordingKeepsChunks(i, peak) ==
  /\ UNCHANGED chunksRef
  /\ recorder' = [RecorderCreated(i, "none") EXCEPT ![i] = "recording"]
  /\ status' = "recording"
  /\ startTimer(callElapsed[i])
  /\ startMeter(i, peak)

\* startRecording after its await of setupAudio, up to its await of
\* emit("startWaveform"): lines 184-189, for the recorder setupAudio i made
startRecording(i, peak) ==
  /\ chunksRef' = <<>>
  /\ recorder' = [RecorderCreated(i, "none") EXCEPT ![i] = "recording"]
  /\ status' = "recording"
  /\ startTimer(callElapsed[i])
  /\ startMeter(i, peak)

\* getUserMedia resolves, setupAudio completes, and startRecording runs on
StartRecordingResumes(i, peak) ==
  /\ callPc[i] = "pending"
  /\ peak \in Peaks
  /\ setupAudio(i, "none")
  /\ startRecording(i, peak)
  /\ callPc' = [callPc EXCEPT ![i] = "started"]
  /\ UNCHANGED <<elapsed, savingPath, now, stopQueued, listeners,
                 callElapsed, finPc, finMr, finBlob, dataEvents,
                 invalidStateError>>
  /\ UNCHANGED <<mounted, notRecorder>>

\* ------------------------------------------------------------ pauseRecording / resumeRecording (lines 192-206)
\* pauseRecording that tests only that a recorder exists
pauseGuardAnyState == mediaRecorderRef # NULL

pauseGuard == mediaRecorderRef # NULL /\ recorder[mediaRecorderRef] = "recording"

resumeGuard == mediaRecorderRef # NULL /\ recorder[mediaRecorderRef] = "paused"

\* the Pause/Resume button while it reads "Pause"
ClickPause ==
  /\ mounted
  /\ ~PauseResumeDisabled
  /\ status = "recording"
  /\ IF pauseGuard
     THEN /\ invalidStateError' =
               (invalidStateError \/ recorder[mediaRecorderRef] # "recording")
          /\ recorder' = [recorder EXCEPT ![mediaRecorderRef] =
                            IF @ = "recording" THEN "paused" ELSE @]
          /\ status' = "paused"
          /\ stopTimer
     ELSE UNCHANGED <<invalidStateError, recorder, status, timerRef, intervals>>
  /\ UNCHANGED <<elapsed, level, savingPath, mediaStreamRef, mediaRecorderRef,
                 chunksRef, audioCtxRef, analyserRef, sourceNodeRef, rafRef,
                 now, loops, stream, ctx, source, analyser, stopQueued,
                 listeners, callPc, callElapsed, finPc, finMr, finBlob,
                 dataEvents>>
  /\ UNCHANGED <<mounted, notRecorder>>

\* the Pause/Resume button while it reads "Resume"
ClickResume ==
  /\ mounted
  /\ ~PauseResumeDisabled
  /\ status = "paused"
  /\ IF resumeGuard
     THEN /\ invalidStateError' =
               (invalidStateError \/ recorder[mediaRecorderRef] # "paused")
          /\ recorder' = [recorder EXCEPT ![mediaRecorderRef] =
                            IF @ = "paused" THEN "recording" ELSE @]
          /\ status' = "recording"
          /\ startTimer(elapsed)
     ELSE UNCHANGED <<invalidStateError, recorder, status, timerRef, intervals>>
  /\ UNCHANGED <<elapsed, level, savingPath, mediaStreamRef, mediaRecorderRef,
                 chunksRef, audioCtxRef, analyserRef, sourceNodeRef, rafRef,
                 now, loops, stream, ctx, source, analyser, stopQueued,
                 listeners, callPc, callElapsed, finPc, finMr, finBlob,
                 dataEvents>>
  /\ UNCHANGED <<mounted, notRecorder>>

\* ------------------------------------------------------------ stopRecording / finalize (lines 208-253)
FreeFinals == {f \in Finals : finPc[f] = "none"}

\* mr.state !== "inactive", the test that chooses between waiting for the stop
\* event and calling finalize() at once
stopGuard(mr) == recorder[mr] # "inactive"

\* finalize up to its first await (blobToBase64): lines 214-222.  fs are the
\* finalize closures that run in this step, in order; the first takes the
\* chunks, the accumulator is empty for the others.
finalizeBegin(fs, chunksNow) ==
  /\ stopTimer
  /\ elapsed' = 0
  /\ finBlob' = [f \in Finals |->
                   IF f = Min(fs) THEN chunksNow
                   ELSE IF f \in fs THEN <<>> ELSE finBlob[f]]
  /\ chunksRef' = <<>>
  /\ finPc' = [f \in Finals |-> IF f \in fs THEN "encoding" ELSE finPc[f]]

\* Stop & Save clicked (enabled while status is not idle)
ClickStop ==
  /\ mounted
  /\ ~StopDisabled
  /\ FreeFinals # {}
  /\ LET mr == mediaRecorderRef
         f == Min(FreeFinals)
     IN IF mr = NULL
        THEN UNCHANGED <<elapsed, timerRef, intervals, chunksRef, recorder,
                         stopQueued, listeners, finPc, finMr, finBlob,
                         invalidStateError>>
        ELSE IF stopGuard(mr)
        THEN /\ listeners' = [listeners EXCEPT ![mr] = @ \cup {f}]
             /\ invalidStateError' =
                  (invalidStateError \/ recorder[mr] = "inactive")
             /\ recorder' = [recorder EXCEPT ![mr] = "inactive"]
             /\ stopQueued' = [stopQueued EXCEPT ![mr] = (recorder[mr] # "inactive")]
             /\ finPc' = [finPc EXCEPT ![f] = "listening"]
             /\ finMr' = [finMr EXCEPT ![f] = mr]
             /\ UNCHANGED <<elapsed, timerRef, intervals, chunksRef, finBlob>>
        ELSE /\ finalizeBegin({f}, chunksRef)
             /\ finMr' = [finMr EXCEPT ![f] = mr]
             /\ UNCHANGED <<recorder, stopQueued, listeners, invalidStateError>>
  /\ UNCHANGED <<status, level, savingPath, mediaStreamRef, mediaRecorderRef,
                 audioCtxRef, analyserRef, sourceNodeRef, rafRef, now, loops,
                 stream, ctx, source, analyser, callPc, callElapsed,
                 dataEvents>>
  /\ UNCHANGED <<mounted, notRecorder>>

\* ondataavailable (lines 160-162): the accumulator after an event of
\* recorder i whose blob has data (size > 0) or has none
ondataavailable(i, hasData) ==
  IF hasData THEN Append(chunksRef, i) ELSE chunksRef

\* a timeslice flush of recorder i, every 250 ms while it records
DataAvailable(i, hasData) ==
  /\ recorder[i] = "recording"
  /\ dataEvents < MaxChunks
  /\ chunksRef' = ondataavailable(i, hasData)
  /\ dataEvents' = IF hasData THEN dataEvents + 1 ELSE dataEvents
  /\ UNCHANGED <<status, elapsed, level, savingPath, timerRef, mediaStreamRef,
                 mediaRecorderRef, audioCtxRef, analyserRef, sourceNodeRef,
                 rafRef, now, intervals, loops, stream, ctx, source, analyser,
                 recorder, stopQueued, listeners, callPc, callElapsed, finPc,
                 finMr, finBlob, invalidStateError>>
  /\ UNCHANGED <<mounted, notRecorder>>

\* the task recorder i queued when it stopped: the final dataavailable, then
\* the stop event, which runs the registered finalize closures
StopEvent(i, hasData) ==
  /\ stopQueued[i]
  /\ stopQueued' = [stopQueued EXCEPT ![i] = FALSE]
  /\ listeners' = [listeners EXCEPT ![i] = {}]
  /\ LET chunksNow == ondataavailable(i, hasData)
     IN IF listeners[i] # {}
        THEN finalizeBegin(listeners[i], chunksNow)
        ELSE /\ chunksRef' = chunksNow
             /\ UNCHANGED <<elapsed, timerRef, intervals, finPc, finBlob>>
  /\ UNCHANGED <<status, level, savingPath, mediaStreamRef, mediaRecorderRef,
                 audioCtxRef, analyserRef, sourceNodeRef, rafRef, now, loops,
                 stream, ctx, source, analyser, recorder, callPc, callElapsed,
                 finMr, dataEvents, invalidStateError>>
  /\ UNCHANGED <<mounted, notRecorder>>

\* blobToBase64 (lines 255-261) resolves: finalize goes on to invoke
\* save_audio_base64 and waits
EncodeResolves(f) ==
  /\ finPc[f] = "encoding"
  /\ finPc' = [finPc EXCEPT ![f] = "saving"]
  /\ UNCHANGED <<status, elapsed, level, savingPath, timerRef, mediaStreamRef,
                 mediaRecorderRef, chunksRef, audioCtxRef, analyserRef,
                 sourceNodeRef, rafRef, now, intervals, loops, stream, ctx,
                 source, analyser, recorder, stopQueued, listeners, callPc,
                 callElapsed, finMr, finBlob, dataEvents, invalidStateError>>
  /\ UNCHANGED <<mounted, notRecorder>>

\* blobToBase64 rejects (reader.onerror): the await at line 222 throws outside
\* the try, finalize rejects
EncodeRejects(f) ==
  /\ finPc[f] = "encoding"
  /\ finPc' = [finPc EXCEPT ![f] = "failed"]
  /\ UNCHANGED <<status, elapsed, level, savingPath, timerRef, mediaStreamRef,
                 mediaRecorderRef, chunksRef, audioCtxRef, analyserRef,
                 sourceNodeRef, rafRef, now, intervals, loops, stream, ctx,
                 source, analyser, recorder, stopQueued, listeners, callPc,
                 callElapsed, finMr, finBlob, dataEvents, invalidStateError>>
  /\ UNCHANGED <<mounted, notRecorder>>

\* what finalize does once the save call has settled: lines 234-243
finalizeEnd(ok) ==
  /\ savingPath' = IF ok THEN "saved" ELSE "save failed"
  /\ teardownAudio
  /\ status' = "idle"

\* save_audio_base64 resolves (ok) or rejects: finalize runs to its end
SaveSettles(f, ok) ==
  /\ finPc[f] = "saving"
  /\ finalizeEnd(ok)
  /\ finPc' = [finPc EXCEPT ![f] = "done"]
  /\ UNCHANGED <<elapsed, timerRef, mediaRecorderRef, chunksRef, now,
                 intervals, listeners, callPc, callElapsed, finMr, finBlob,
                 dataEvents, invalidStateError>>
  /\ UNCHANGED <<mounted, notRecorder>>

\* ------------------------------------------------------------ effect cleanup (lines 263-269)
\* The component unmounts: stopTimer, stopMeter, teardownAudio.  The buttons
\* are gone; promise continuations, events, intervals and frame callbacks that
\* are still scheduled run on (the state variables then hold the value last
\* passed to their setter).
Unmount ==
  /\ mounted
  /\ mounted' = FALSE
  /\ stopTimer
  /\ stopMeter
  /\ teardownAudio
  /\ UNCHANGED <<status, elapsed, savingPath, mediaRecorderRef, chunksRef,
                 now, listeners, callPc, callElapsed, finPc, finMr, finBlob,
                 dataEvents, invalidStateError>>
  /\ UNCHANGED notRecorder

\* ------------------------------------------------------------ Gateway (lines 6-68)
GatewayInit ==
  /\ cachedInvoke = FALSE
  /\ gwPc = [k \in Calls |-> "none"]
  /\ gwCmd = [k \in Calls |-> "none"]
  /\ gwResult = [k \in Calls |-> "none"]
  /\ gwImports = 0
  /\ gwInvokes = 0

\* getInvoke with its test of isTauri left out
getInvokeUnchecked ==
  IF cachedInvoke THEN "invoke" ELSE "importing"

\* getInvoke up to its first return or await (lines 15-27): where the call
\* stands next
getInvoke ==
  IF ~isTauri THEN "thrower"
  ELSE IF cachedInvoke THEN "invoke"
  ELSE "importing"

FreeCalls == {k \in Calls : gwPc[k] = "none"}

\* an exported wrapper is called: tauriInvoke(cmd, args) runs into getInvoke
GatewayCall(cmd) ==
  /\ FreeCalls # {}
  /\ LET k == Min(FreeCalls)
     IN /\ gwCmd' = [gwCmd EXCEPT ![k] = cmd]
        /\ gwPc' = [gwPc EXCEPT ![k] = getInvoke]
        /\ gwImports' = IF getInvoke = "importing" THEN gwImports + 1 ELSE gwImports
  /\ UNCHANGED <<isTauri, cachedInvoke, gwInvokes, gwResult>>
  /\ UNCHANGED notGateway

\* import("@tauri-apps/api/core") resolves: lines 27-29
ImportResolves(k) ==
  /\ gwPc[k] = "importing"
  /\ cachedInvoke' = TRUE
  /\ gwPc' = [gwPc EXCEPT ![k] = "invoke"]
  /\ UNCHANGED <<isTauri, gwCmd, gwImports, gwInvokes, gwResult>>
  /\ UNCHANGED notGateway

\* tauriInvoke line 35 with the function getInvoke returned: the fallback
\* throws at once, the bridge's invoke is called and awaited
TauriInvoke(k) ==
  /\ gwPc[k] \in {"thrower", "invoke"}
  /\ IF gwPc[k] = "thrower"
     THEN /\ gwResult' = [gwResult EXCEPT ![k] = "TransportUnavailable"]
          /\ gwPc' = [gwPc EXCEPT ![k] = "done"]
          /\ UNCHANGED gwInvokes
     ELSE /\ gwInvokes' = gwInvokes + 1
          /\ gwPc' = [gwPc EXCEPT ![k] = "invoking"]
          /\ UNCHANGED gwResult
  /\ UNCHANGED <<isTauri, cachedInvoke, gwCmd, gwImports>>
  /\ UNCHANGED notGateway

\* the external process answers: the result or the failure is passed through
InvokeSettles(k, ok) ==
  /\ gwPc[k] = "invoking"
  /\ gwResult' = [gwResult EXCEPT ![k] = IF ok THEN "resolved" ELSE "rejected"]
  /\ gwPc' = [gwPc EXCEPT ![k] = "done"]
  /\ UNCHANGED <<isTauri, cachedInvoke, gwCmd, gwImports, gwInvokes>>
  /\ UNCHANGED notGateway

\* ------------------------------------------------------------ MIME type and extension hint (lines 149-158, 218-227)
\* the types setupAudio asks MediaRecorder.isTypeSupported about
QueriedTypes == {"audio/webm;codecs=opus", "audio/mp4"}

\* values mr.mimeType can report: empty, or the MIME type of the container
\* the browser records into, with or without its codecs parameter
MimeTypes == {"", "audio/webm", "audio/webm;codecs=opus", "audio/webm;codecs=pcm",
              "audio/mp4", "audio/mp4;codecs=mp4a.40.2", "audio/mp4;codecs=opus",
              "audio/x-m4a", "audio/m4a", "video/mp4", "video/webm",
              "audio/ogg", "audio/ogg;codecs=opus", "audio/wav", "audio/mpeg",
              "audio/aac", "audio/x-matroska"}

\* String.prototype.includes
includes(s, sub) ==
  \E n \in 1..(Len(s) - Len(sub) + 1) : SubSeq(s, n, n + Len(sub) - 1) = sub

\* the mime setupAudio chooses (lines 149-153)
setupAudioMime(supported) ==
  IF supported["audio/webm;codecs=opus"] THEN "audio/webm;codecs=opus"
  ELSE IF supported["audio/mp4"] THEN "audio/mp4"
  ELSE "audio/webm"

\* mr.mimeType || "audio/webm" (line 218)
mimeOrDefault(t) == IF t # "" THEN t ELSE "audio/webm"

\* the extension chosen on "mp4" alone
extHintMp4Only(mime) ==
  IF includes(mime, "mp4") THEN "m4a"
  ELSE IF includes(mime, "webm") THEN "webm"
  ELSE "webm"

\* the ternary of lines 223-227
extHint(mime) ==
  IF includes(mime, "mp4") \/ includes(mime, "m4a") THEN "m4a"
  ELSE IF includes(mime, "webm") THEN "webm"
  ELSE "webm"

\* no negotiation in progress
ExtIdle ==
  /\ isTypeSupported = [t \in QueriedTypes |-> FALSE]
  /\ setupMime = ""
  /\ mimeType = ""
  /\ finalizeMime = ""
  /\ ext = ""
  /\ extPc = "idle"

\* a browser: its answers to isTypeSupported and the type its recorder reports
ExtInit ==
  /\ isTypeSupported \in [QueriedTypes -> BOOLEAN]
  /\ mimeType \in MimeTypes
  /\ setupMime = ""
  /\ finalizeMime = ""
  /\ ext = ""
  /\ extPc = "setup"

\* setupAudio constructs the recorder with the mime it chose
ChooseMime ==
  /\ extPc = "setup"
  /\ setupMime' = setupAudioMime(isTypeSupported)
  /\ extPc' = "recording"
  /\ UNCHANGED <<isTypeSupported, mimeType, finalizeMime, ext>>
  /\ UNCHANGED <<recVars, gwVars, meterVars, appVars>>

\* finalize computes the blob type and the extHint of save_audio_base64
ComputeExt ==
  /\ extPc = "recording"
  /\ finalizeMime' = mimeOrDefault(mimeType)
  /\ ext' = extHint(mimeOrDefault(mimeType))
  /\ extPc' = "saved"
  /\ UNCHANGED <<isTypeSupported, setupMime, mimeType>>
  /\ UNCHANGED <<recVars, gwVars, meterVars, appVars>>

\* ------------------------------------------------------------ the meter on whole frames (lines 93-114)
\* byte samples getByteTimeDomainData can deliver
Samples == {b \in 0..255 : b % SampleStep = 0 \/ b \in {128, 255}}

Frames == UNION {[1..n -> Samples] : n \in 1..MaxFrameLen}

\* Math.abs
Abs(x) == IF x < 0 THEN -x ELSE x

\* the for loop of lines 99-102, from index n (1-based) with the peak so far
RECURSIVE peakLoop(_, _, _)
peakLoop(d, n, peak) ==
  IF n > Len(d) THEN peak
  ELSE LET v == Abs(d[n] - 128)
       IN peakLoop(d, n + 1, IF v > peak THEN v ELSE peak)

\* the level computed with Math.floor in place of Math.round
LevelFloor(peak) ==
  LET r == (100 * peak) \div 128
  IN IF r > 100 THEN 100 ELSE r

\* the level written by a meter that truncates
loopLevelFloor(d) == LevelFloor(peakLoop(d, 1, 0))

\* the level loop() passes to setLevel for the frame d (lines 97-104)
loopLevel(d) == Level(peakLoop(d, 1, 0))

\* no meter run in progress
MeterIdle ==
  /\ data = <<>>
  /\ meterPc = "idle"

MeterInit ==
  /\ data \in Frames
  /\ meterPc = "frame"

\* loop() on the frame: setLevel(...)
MeterLoop ==
  /\ meterPc = "frame"
  /\ level' = loopLevel(data)
  /\ meterPc' = "sampled"
  /\ UNCHANGED <<status, elapsed, savingPath, timerRef, mediaStreamRef,
                 mediaRecorderRef, chunksRef, audioCtxRef, analyserRef,
                 sourceNodeRef, rafRef, now, intervals, loops, stream, ctx,
                 source, analyser, recorder, stopQueued, listeners, callPc,
                 callElapsed, finPc, finMr, finBlob, dataEvents,
                 invalidStateError, mounted>>
  /\ UNCHANGED <<data, gwVars, extVars, appVars>>

\* stopMeter after the frame: setLevel(0)
MeterStop ==
  /\ meterPc = "sampled"
  /\ stopMeter
  /\ meterPc' = "stopped"
  /\ UNCHANGED <<status, elapsed, savingPath, timerRef, mediaStreamRef,
                 mediaRecorderRef, chunksRef, audioCtxRef, analyserRef,
                 sourceNodeRef, now, intervals, stream, ctx,
                 source, analyser, recorder, stopQueued, listeners, callPc,
                 callElapsed, finPc, finMr, finBlob, dataEvents,
                 invalidStateError, mounted>>
  /\ UNCHANGED <<data, gwVars, extVars, appVars>>

\* ------------------------------------------------------------ App shell (src/src/App.jsx)
AppStarts == 1..MaxAppStarts
AppStops == 1..MaxAppStops

\* what a settled fetch of /record/stop delivers: a body with pathWav, a body
\* without it, or a failure (rejected fetch, unreadable body)
StopOutcomes == {"path", "nopath", "fail"}

\* what a settled fetch of /transcribe delivers: a body with text, a body
\* without it, or a failure
TranscribeOutcomes == {"text", "notext", "fail"}

\* the text the transcription of the k-th stop returns
TextOf(k) == "transcript " \o ToString(k)

\* App's state after its first render (lines 17-31)
AppInit ==
  /\ mock = TRUE
  /\ isRecording = FALSE
  /\ isPaused = FALSE
  /\ appStatus = ""
  /\ transcript = ""
  /\ loading = [recording |-> FALSE, transcribing |-> FALSE, sending |-> FALSE]
  /\ startPc = [k \in AppStarts |-> "none"]
  /\ startPre = [k \in AppStarts |-> [isRecording |-> FALSE, isPaused |-> FALSE]]
  /\ stopPc = [k \in AppStops |-> "none"]
  /\ stopPre = [k \in AppStops |-> [isRecording |-> FALSE, isPaused |-> FALSE]]
  /\ trPc = [k \in AppStops |-> "none"]
  /\ trCount = [k \in AppStops |-> 0]
  /\ trConcurrent = [k \in AppStops |-> {}]

\* Start clicked (disabled={isRecording}): handleRecordStart up to its await
\* (lines 54-66), to its return in mock mode
handleRecordStart ==
  /\ ~isRecording
  /\ \E k \in AppStarts : startPc[k] = "none"
  /\ LET k == Min({j \in AppStarts : startPc[j] = "none"})
     IN /\ startPre' = [startPre EXCEPT ![k] =
                          [isRecording |-> isRecording, isPaused |-> isPaused]]
        /\ isRecording' = TRUE
        /\ isPaused' = FALSE
        /\ IF mock
           THEN /\ appStatus' = "Recording started (mock)."
                /\ loading' = [loading EXCEPT !.recording = FALSE]
                /\ startPc' = [startPc EXCEPT ![k] = "ok"]
           ELSE /\ loading' = [loading EXCEPT !.recording = TRUE]
                /\ startPc' = [startPc EXCEPT ![k] = "fetching"]
                /\ UNCHANGED appStatus
  /\ UNCHANGED <<mock, transcript, stopPc, stopPre, trPc, trCount, trConcurrent>>
  /\ UNCHANGED notApp

\* the fetch of /record/start settles: lines 67-76
RecordStartSettles(k, ok) ==
  /\ startPc[k] = "fetching"
  /\ startPc' = [startPc EXCEPT ![k] = IF ok THEN "ok" ELSE "failed"]
  /\ appStatus' = IF ok THEN "Recording started." ELSE "Failed to start recording."
  /\ loading' = [loading EXCEPT !.recording = FALSE]
  /\ UNCHANGED <<mock, isRecording, isPaused, transcript, startPre, stopPc,
                 stopPre, trPc, trCount, trConcurrent>>
  /\ UNCHANGED notApp

\* Pause/Resume clicked (disabled={!isRecording}): lines 176-179
handlePauseResume ==
  /\ isRecording
  /\ isPaused' = ~isPaused
  /\ appStatus' = IF isPaused THEN "Resuming..." ELSE "Pausing..."
  /\ UNCHANGED <<mock, isRecording, transcript, loading, startPc, startPre,
                 stopPc, stopPre, trPc, trCount, trConcurrent>>
  /\ UNCHANGED notApp

\* the transcriptions in flight
Transcribing == {j \in AppStops : trPc[j] = "fetching"}

\* isPaused after a stop that leaves it as it is
pausedAfterStopKept == isPaused

\* setIsPaused(false) in handleRecordStop (line 84)
pausedAfterStop == FALSE

\* Stop clicked (disabled={!isRecording}): handleRecordStop up to its await
\* (lines 81-92); in mock mode to its return, handleTranscribe (lines 111-118)
\* included
handleRecordStop ==
  /\ isRecording
  /\ \E k \in AppStops : stopPc[k] = "none"
  /\ LET k == Min({j \in AppStops : stopPc[j] = "none"})
     IN /\ stopPre' = [stopPre EXCEPT ![k] =
                         [isRecording |-> isRecording, isPaused |-> isPaused]]
        /\ isRecording' = FALSE
        /\ isPaused' = pausedAfterStop
        /\ IF mock
           THEN /\ stopPc' = [stopPc EXCEPT ![k] = "ok"]
                /\ trCount' = [trCount EXCEPT ![k] = @ + 1]
                /\ trConcurrent' = [trConcurrent EXCEPT ![k] = Transcribing]
                /\ trPc' = [trPc EXCEPT ![k] = "mock"]
                /\ transcript' = "This is a mock transcript."
                /\ appStatus' = "Transcription complete (mock)."
                /\ loading' = [loading EXCEPT !.recording = FALSE,
                                              !.transcribing = FALSE]
           ELSE /\ stopPc' = [stopPc EXCEPT ![k] = "fetching"]
                /\ loading' = [loading EXCEPT !.recording = TRUE]
                /\ UNCHANGED <<appStatus, transcript, trPc, trCount,
                               trConcurrent>>
  /\ UNCHANGED <<mock, startPc, startPre>>
  /\ UNCHANGED notApp

\* a handleRecordStop that goes on to transcribe whatever the stop call gave
transcribesAfterStopAlways(out) == TRUE

\* handleTranscribe() is the last statement of the try block (line 98): it is
\* reached unless the fetch or the reading of its body threw
transcribesAfterStop(out) == out # "fail"

\* the fetch of /record/stop settles: lines 93-106, and handleTranscribe up to
\* its await (lines 111-126) when it is called
RecordStopSettles(k, out) ==
  /\ stopPc[k] = "fetching"
  /\ stopPc' = [stopPc EXCEPT ![k] = IF out = "fail" THEN "failed" ELSE "ok"]
  /\ appStatus' = CASE out = "path" -> "Saved recording to pathWav"
                     [] out = "nopath" -> "Recording stopped."
                     [] OTHER -> "Failed to stop recording."
  /\ IF transcribesAfterStop(out)
     THEN /\ trCount' = [trCount EXCEPT ![k] = @ + 1]
          /\ trConcurrent' = [trConcurrent EXCEPT ![k] = Transcribing]
          /\ trPc' = [trPc EXCEPT ![k] = "fetching"]
          /\ loading' = [loading EXCEPT !.recording = FALSE,
                                        !.transcribing = TRUE]
     ELSE /\ loading' = [loading EXCEPT !.recording = FALSE]
          /\ UNCHANGED <<trPc, trCount, trConcurrent>>
  /\ UNCHANGED <<mock, isRecording, isPaused, transcript, startPc, startPre,
                 stopPre>>
  /\ UNCHANGED notApp

\* a handleTranscribe that clears the transcript when the call fails
transcriptAfterTranscribeCleared(k, out) ==
  CASE out = "text" -> TextOf(k)
    [] out = "notext" -> ""
    [] OTHER -> ""

\* setTranscript(json.text || '') in the try block (line 128); the catch block
\* sets the status only
transcriptAfterTranscribe(k, out) ==
  CASE out = "text" -> TextOf(k)
    [] out = "notext" -> ""
    [] OTHER -> transcript

\* the fetch of /transcribe settles: lines 127-134
TranscribeSettles(k, out) ==
  /\ trPc[k] = "fetching"
  /\ trPc' = [trPc EXCEPT ![k] = IF out = "fail" THEN "failed" ELSE out]
  /\ transcript' = transcriptAfterTranscribe(k, out)
  /\ appStatus' = IF out = "fail" THEN "Failed to transcribe."
                  ELSE "Transcription complete."
  /\ loading' = [loading EXCEPT !.transcribing = FALSE]
  /\ UNCHANGED <<mock, isRecording, isPaused, startPc, startPre, stopPc,
                 stopPre, trCount, trConcurrent>>
  /\ UNCHANGED notApp

\* toggleMock (lines 168-174).  App defines the handler; the model offers it
\* as a step so that both modes of the handlers are exercised.
toggleMock ==
  /\ mock' = ~mock
  /\ appStatus' = ""
  /\ transcript' = ""
  /\ UNCHANGED <<isRecording, isPaused, loading, startPc, startPre, stopPc,
                 stopPre, trPc, trCount, trConcurrent>>
  /\ UNCHANGED notApp

\* ------------------------------------------------------------ specifications
\* The Recorder, mounted in the desktop window.
Init ==
  /\ RecorderInit
  /\ isTauri = TRUE
  /\ GatewayInit
  /\ ExtIdle
  /\ MeterIdle
  /\ AppInit

Next ==
  \/ ClickStart
  \/ \E i \in Attempts : GetUserMediaRejected(i)
  \/ \E i \in Attempts, fail \in FailStages : SetupAudioThrows(i, fail)
  \/ \E i \in Attempts, peak \in Peaks : StartRecordingResumes(i, peak)
  \/ ClickPause
  \/ ClickResume
  \/ ClickStop
  \/ \E i \in Attempts, hasData \in BOOLEAN : DataAvailable(i, hasData)
  \/ \E i \in Attempts, hasData \in BOOLEAN : StopEvent(i, hasData)
  \/ \E f \in Finals : EncodeResolves(f)
  \/ \E f \in Finals : EncodeRejects(f)
  \/ \E f \in Finals, ok \in BOOLEAN : SaveSettles(f, ok)
  \/ \E a \in Attempts, peak \in Peaks : MeterFrame(a, peak)
  \/ \E t \in TimerIds : TimerTick(t)
  \/ ClockAdvance
  \/ Unmount

Spec == Init /\ [][Next]_vars

\* The Gateway, loaded in the desktop window or in a plain browser tab.
InitGateway ==
  /\ RecorderInit
  /\ isTauri \in BOOLEAN
  /\ GatewayInit
  /\ ExtIdle
  /\ MeterIdle
  /\ AppInit

NextGateway ==
  \/ \E cmd \in Commands : GatewayCall(cmd)
  \/ \E k \in Calls : ImportResolves(k)
  \/ \E k \in Calls : TauriInvoke(k)
  \/ \E k \in Calls, ok \in BOOLEAN : InvokeSettles(k, ok)

SpecGateway == InitGateway /\ [][NextGateway]_vars

\* One recording's MIME negotiation, for every browser.
InitExt ==
  /\ RecorderInit
  /\ isTauri = TRUE
  /\ GatewayInit
  /\ ExtInit
  /\ MeterIdle
  /\ AppInit

NextExt ==
  \/ ChooseMime
  \/ ComputeExt

SpecExt == InitExt /\ [][NextExt]_vars

\* One frame through the meter, for every frame.
InitMeter ==
  /\ RecorderInit
  /\ isTauri = TRUE
  /\ GatewayInit
  /\ ExtIdle
  /\ MeterInit
  /\ AppInit

NextMeter ==
  \/ MeterLoop
  \/ MeterStop

SpecMeter == InitMeter /\ [][NextMeter]_vars

\* The App shell.
InitApp ==
  /\ RecorderInit
  /\ isTauri = TRUE
  /\ GatewayInit
  /\ ExtIdle
  /\ MeterIdle
  /\ AppInit

NextApp ==
  \/ handleRecordStart
  \/ \E k \in AppStarts, ok \in BOOLEAN : RecordStartSettles(k, ok)
  \/ handlePauseResume
  \/ handleRecordStop
  \/ \E k \in AppStops, out \in StopOutcomes : RecordStopSettles(k, out)
  \/ \E k \in AppStops, out \in TranscribeOutcomes : TranscribeSettles(k, out)
  \/ toggleMock

SpecApp == InitApp /\ [][NextApp]_vars

\* ------------------------------------------------------------ steps the claims speak of
\* the i-th startRecording fails in this step
StartFails(i) == callPc[i] = "pending" /\ callPc'[i] \in {"rejected", "threw"}

\* the i-th startRecording starts its recording in this step
StartSucceeds(i) == callPc[i] = "pending" /\ callPc'[i] = "started"

\* finalize f runs its first part (up to blobToBase64) in this step
FinalizeBegins(f) == finPc[f] \in {"none", "listening"} /\ finPc'[f] = "encoding"

\* finalize f is past its first statement and has not returned or thrown
FinalizeRunning(f) == finPc[f] \in {"encoding", "saving"}

\* finalize f has run (to some point) for its recorder
FinalizeRan(f) == finPc[f] \in {"encoding", "saving", "done", "failed"}

\* finalize f leaves (returns or throws) in this step
FinalizeExits(f) == FinalizeRunning(f) /\ finPc'[f] \in {"done", "failed"}

Range(q) == {q[n] : n \in 1..Len(q)}

\* ------------------------------------------------------------ claims
\* C1: every stop issued from status recording or paused ends with status
\* idle and elapsed time 0, whether the save call succeeded or failed: when a
\* finalize returns, status is idle and elapsed is 0.
C1_StopEndsIdleZero ==
  [][\A f \in Finals :
       (finPc[f] = "saving" /\ finPc'[f] = "done")
         => (status' = "idle" /\ elapsed' = 0)]_vars

\* C2: no start is accepted while the finalize of an earlier session is still
\* in progress.
C2_NoStartDuringFinalize ==
  [][(\E i \in Attempts : callPc[i] = "none" /\ callPc'[i] = "pending")
       => \A f \in Finals : ~FinalizeRunning(f)]_vars

\* C3: for every session, finalize runs at most once (so one save call is
\* issued), and the chunks of the session are all in that one payload.
C3_OneFinalizePerSession ==
  \A i \in Attempts :
    LET fs == {f \in Finals : finMr[f] = i /\ FinalizeRan(f)}
    IN /\ Cardinality(fs) <= 1
       /\ \A f \in fs : \A g \in Finals \ {f} : i \notin Range(finBlob[g])

\* C4: in every reachable state at most one acquired input stream is live.
C4_OneLiveStream ==
  Cardinality({i \in Attempts : stream[i] = "live"}) <= 1

\* C5: the Recorder never calls pause() on a recorder that is not recording,
\* resume() on one that is not paused, or stop() on an inactive one.
C5_NoInvalidAdapterCall == invalidStateError = FALSE

\* C5, witness: stop() has acted on a recorder that pause() had paused.
C5_Witness ==
  /\ status = "paused"
  /\ \E i \in Attempts : recorder[i] = "inactive" /\ stopQueued[i]
  /\ ~invalidStateError

\* C6: when a start fails at any stage of acquisition, status stays as it was
\* (idle) and no resource of that start is left held.
C6_FailedStartHoldsNothing ==
  [][\A i \in Attempts :
       StartFails(i)
         => /\ status' = status
            /\ stream'[i] # "live"
            /\ ctx'[i] # "running"
            /\ source'[i] \notin {"created", "connected"}
            /\ analyser'[i] # "connected"
            /\ intervals' = intervals
            /\ loops' = loops]_vars

\* C7: on every exit path of finalize (return or throw) the resources of its
\* session are released and the refs are cleared.
C7_FinalizeAlwaysReleases ==
  [][\A f \in Finals :
       FinalizeExits(f)
         => /\ stream'[finMr[f]] # "live"
            /\ ctx'[finMr[f]] # "running"
            /\ source'[finMr[f]] # "connected"
            /\ analyser'[finMr[f]] # "connected"
            /\ mediaStreamRef' = NULL
            /\ audioCtxRef' = NULL
            /\ sourceNodeRef' = NULL
            /\ analyserRef' = NULL]_vars

\* a data-available event appends a chunk in this step (to the accumulator,
\* or to the blob a finalize builds from it in the same step)
ChunkAppended ==
  \/ Len(chunksRef') > Len(chunksRef)
  \/ \E f \in Finals : FinalizeBegins(f) /\ Len(finBlob'[f]) > Len(chunksRef)

\* C8: chunks are appended only while status is recording.
C8_AppendOnlyWhileRecording ==
  [][ChunkAppended => status = "recording"]_vars

\* the accumulator, holding chunks, is emptied in this step
ChunksCleared == chunksRef # <<>> /\ chunksRef' = <<>>

\* C9 as stated: the accumulator is cleared only at the moment a new
\* recording starts.
C9_ClearedOnlyAtStart ==
  [][ChunksCleared => \E i \in Attempts : StartSucceeds(i)]_vars

\* C9 as amended: the accumulator is cleared when a new recording starts and
\* when finalize has built its blob, and at no other point (pause, resume,
\* data-available, the later steps of stop); every start leaves it empty.
C9_ClearedAtStartAndFinalize ==
  [][/\ ChunksCleared =>
          \/ \E i \in Attempts : StartSucceeds(i)
          \/ \E f \in Finals : FinalizeBegins(f)
     /\ (\E i \in Attempts : StartSucceeds(i)) => chunksRef' = <<>>]_vars

\* C9, witness: a finalize has taken the chunks of its session into its blob
\* and left the accumulator empty.
C9_Witness ==
  \E f \in Finals :
    finPc[f] = "encoding" /\ finBlob[f] # <<>> /\ chunksRef = <<>>

\* C10: with no desktop bridge every Gateway call fails with the
\* transport-unavailable error, and no import of the bridge, no invoke and no
\* acquisition of audio is attempted.
C10_NoBridgeFailsFast ==
  ~isTauri =>
    /\ gwImports = 0
    /\ gwInvokes = 0
    /\ ~cachedInvoke
    /\ \A i \in Attempts : stream[i] = "none"
    /\ \A k \in Calls :
         /\ gwPc[k] \in {"none", "thrower", "done"}
         /\ gwPc[k] = "done" => gwResult[k] = "TransportUnavailable"
         /\ gwPc[k] # "done" => gwResult[k] = "none"

\* C10, witness: every call made without a bridge has failed.
C10_Witness ==
  ~isTauri /\ \A k \in Calls : gwPc[k] = "done"

\* resumeRecording resumes a paused recorder in this step
ResumeStep ==
  /\ status = "paused"
  /\ \E i \in Attempts : recorder[i] = "paused" /\ recorder'[i] = "recording"

\* C11: between a pause and the following resume no tick changes the elapsed
\* value (only finalize's reset may), and resume restarts the tick from the
\* accumulated elapsed value without resetting it.
C11_TickHaltsWhilePaused ==
  [][/\ (status = "paused" /\ status' = "paused" /\ finPc' = finPc)
          => elapsed' = elapsed
     /\ ResumeStep
          => /\ elapsed' = elapsed
             /\ timerRef' # NULL
             /\ intervals'[timerRef'] = now - elapsed]_vars

\* a pause takes effect in this step
PauseStep == status = "recording" /\ status' = "paused"

\* a stop completes in this step: its finalize returns
StopCompletes == \E f \in Finals : finPc[f] = "saving" /\ finPc'[f] = "done"

\* the component is torn down in this step
TeardownStep == mounted /\ ~mounted'

\* C12: the level-sampling loop and the elapsed-time tick are both cancelled
\* on pause, on stop and on component teardown: after a step in which a pause
\* takes effect, a stop completes or the component is torn down, no frame
\* callback and no interval callback remains scheduled.
C12_CancelledOnPauseStopTeardown ==
  [][(PauseStep \/ StopCompletes \/ TeardownStep)
       => /\ loops' = {}
          /\ \A t \in TimerIds : intervals'[t] = NoInterval]_vars

\* C13: the displayed level is 0 once stop's finish step has completed and
\* the resources are released, and stays 0 until a new recording starts: in
\* every state where a finalize has returned and status is idle (no recording
\* has started since), level is 0.
C13_LevelZeroAfterStop ==
  (status = "idle" /\ \E f \in Finals : finPc[f] = "done") => level = 0

\* the session has an active recorder: the MediaRecorder in mediaRecorderRef
\* is recording or paused
ActiveRecorder ==
  mediaRecorderRef # NULL /\ recorder[mediaRecorderRef] \in {"recording", "paused"}

\* C14: in every reachable state in which the Recorder is rendered, every
\* control whose action is not valid is disabled: Start is disabled unless the
\* session is idle, and Pause/Resume and Stop are disabled when the session is
\* idle or no longer has an active recorder.
C14_InvalidControlsDisabled ==
  mounted =>
    /\ (status # "idle" => StartDisabled)
    /\ (status = "idle" \/ ~ActiveRecorder)
         => (PauseResumeDisabled /\ StopDisabled)

\* position of the first occurrence of the character c in s, 0 if none
IndexOf(s, c) ==
  IF \E n \in 1..Len(s) : SubSeq(s, n, n) = c
  THEN Min({n \in 1..Len(s) : SubSeq(s, n, n) = c})
  ELSE 0

\* the subtype of a MIME type: what stands between "/" and the parameters
Subtype(t) ==
  LET semi == IndexOf(t, ";")
      essence == IF semi = 0 THEN t ELSE SubSeq(t, 1, semi - 1)
      slash == IndexOf(essence, "/")
  IN SubSeq(essence, slash + 1, Len(essence))

\* a MIME type of the mp4/m4a family
Mp4Family(t) == Subtype(t) \in {"mp4", "m4a", "x-m4a"}

\* C17: the extension hint passed to save_audio_base64 is m4a exactly when
\* the recorder's negotiated MIME type is of the mp4/m4a family and webm for
\* every other MIME type, the empty one included (it defaults to audio/webm);
\* when the recorder reports the type it was constructed with, the hint is
\* m4a exactly when setupAudio chose audio/mp4.
C17_ExtHintFollowsMimeFamily ==
  extPc = "saved" =>
    /\ ext = (IF Mp4Family(mimeType) THEN "m4a" ELSE "webm")
    /\ (mimeType = "" => finalizeMime = "audio/webm" /\ ext = "webm")
    /\ (mimeType = setupMime => (ext = "m4a" <=> setupMime = "audio/mp4"))

\* a browser without opus/webm support that records AAC in mp4: the hint is m4a
C17_Witness ==
  /\ extPc = "saved"
  /\ setupMime = "audio/mp4"
  /\ mimeType = "audio/mp4;codecs=mp4a.40.2"
  /\ ext = "m4a"

\* the largest |sample - 128| of the frame
FramePeak == CHOOSE v \in {Abs(data[n] - 128) : n \in 1..Len(data)} :
               \A n \in 1..Len(data) : Abs(data[n] - 128) <= v

\* r is 100 * peak / 128 rounded to the nearest integer, halves upwards
IsRounded(r, peak) == 256 * r - 200 * peak > -128 /\ 256 * r - 200 * peak <= 128

\* C18: the level is always an integer in [0,100]: for every frame of byte
\* samples the meter sets level to min(100, round(peak / 128 * 100)), peak
\* being the maximum of |sample - 128|, and every other write to level
\* (the initial value, stopMeter) sets 0.
C18_LevelInRange ==
  /\ level \in 0..100
  /\ meterPc = "sampled" =>
       \E r \in 0..101 : /\ IsRounded(r, FramePeak)
                          /\ level = (IF r < 100 THEN r ELSE 100)
  /\ meterPc \in {"frame", "stopped"} => level = 0

\* a frame whose second sample carries the peak 128: level 100
C18_Witness ==
  /\ meterPc = "sampled"
  /\ data = <<255, 0>>
  /\ level = 100

\* the remote call of the k-th handleRecordStart fails in this step
StartCallFails(k) == startPc[k] = "fetching" /\ startPc'[k] = "failed"

\* the remote call of the k-th handleRecordStop fails in this step
StopCallFails(k) == stopPc[k] = "fetching" /\ stopPc'[k] = "failed"

\* C15: when a remote start or stop call fails in the App shell (non-mock
\* mode), isRecording and isPaused are back at the values they had before the
\* call, and the failure is shown as status text.
C15_FailedCallReverts ==
  [][/\ \A k \in AppStarts :
          StartCallFails(k)
            => /\ isRecording' = startPre[k].isRecording
               /\ isPaused' = startPre[k].isPaused
               /\ appStatus' = "Failed to start recording."
     /\ \A k \in AppStops :
          StopCallFails(k)
            => /\ isRecording' = stopPre[k].isRecording
               /\ isPaused' = stopPre[k].isPaused
               /\ appStatus' = "Failed to stop recording."]_vars

\* the transcription called by the k-th stop completes in this step
TranscribeCompletes(k) == trPc[k] = "fetching" /\ trPc'[k] # "fetching"

\* the transcriptions of the j-th and the k-th stop were outstanding at once
Overlapped(j, k) == j \in trConcurrent[k] \/ k \in trConcurrent[j]

\* the transcription of the k-th stop completes in this step, after one that
\* was outstanding together with it
CompletesLast(k) ==
  /\ TranscribeCompletes(k)
  /\ \E j \in AppStops \ {k} :
       Overlapped(j, k) /\ trPc[j] \in {"text", "notext", "failed"}

\* the status text a completed transcription shows
StatusOfTranscription(pc) ==
  IF pc = "failed" THEN "Failed to transcribe." ELSE "Transcription complete."

\* C16 (as stated): when two transcription calls are outstanding at once,
\* the displayed transcript and status are those of the call that completes
\* last: once it has completed, the status is its status and the transcript
\* is its text (none if it failed).
C16_LastCompletionDisplayed ==
  [][\A k \in AppStops :
       CompletesLast(k)
         => /\ appStatus' = StatusOfTranscription(trPc'[k])
            /\ transcript' = (IF trPc'[k] = "text" THEN TextOf(k) ELSE "")]_vars

\* C16 (amended): when two transcription calls are outstanding at once, each
\* completion is handled independently of the other: it leaves the other call
\* as it is, the displayed status becomes that of the completing call, and
\* the displayed transcript becomes its text if it succeeded and stays as it
\* was if it failed.
C16_CompletionsIndependent ==
  [][\A k \in AppStops :
       (TranscribeCompletes(k) /\ \E j \in AppStops \ {k} : Overlapped(j, k))
         => /\ appStatus' = StatusOfTranscription(trPc'[k])
            /\ transcript' = (CASE trPc'[k] = "text" -> TextOf(k)
                                [] trPc'[k] = "notext" -> ""
                                [] OTHER -> transcript)
            /\ \A j \in AppStops \ {k} : trPc'[j] = trPc[j]]_vars

\* two transcriptions were outstanding at once; the first returned its text,
\* then the second failed: its status is shown over the first one's transcript
C16_Witness ==
  /\ 1 \in trConcurrent[2]
  /\ trPc[1] = "text"
  /\ trPc[2] = "failed"
  /\ transcript = TextOf(1)
  /\ appStatus = "Failed to transcribe."

\* C19: in the App shell, after any sequence of clicks on enabled controls
\* and any completion order of the remote calls, isPaused implies
\* isRecording.
C19_PausedImpliesRecording == isPaused => isRecording

\* a stop clicked while paused has left the session neither recording nor paused
C19_Witness ==
  \E k \in AppStops :
    /\ stopPc[k] # "none"
    /\ stopPre[k].isPaused
    /\ ~isRecording
    /\ ~isPaused

\* the k-th handleRecordStop completes in this step
StopHandlerCompletes(k) ==
  stopPc[k] \in {"none", "fetching"} /\ stopPc'[k] \in {"ok", "failed"}

\* C20: each handleRecordStop initiates exactly one transcription when the
\* stop succeeds (mock mode, or the remote stop call resolves) and none when
\* the remote stop call fails; in both cases loading.recording is false once
\* the handler has completed.
C20_OneTranscriptionPerStop ==
  [][\A k \in AppStops :
       /\ trCount'[k] = (IF stopPc'[k] = "ok" THEN 1 ELSE 0)
       /\ StopHandlerCompletes(k) => ~loading'.recording]_vars

\* a remote stop that failed started no transcription, a later one that
\* resolved started one
C20_Witness ==
  /\ stopPc[1] = "failed"
  /\ trCount[1] = 0
  /\ stopPc[2] = "ok"
  /\ trCount[2] = 1
  /\ trPc[2] = "fetching"
  /\ ~loading.recording

====
